---- MODULE Spec2Model ----
(***************************************************************************)
(* Version-string comparison of osquery's SQLite extension                 *)
(* (osquery/sql/sqlite_version.cpp): the comparator versionCompare with    *)
(* its helpers, the scalar SQL function version_compare and the four       *)
(* collations version, version_arch, version_dpkg and version_rhel.        *)
(*                                                                         *)
(* A version string is a sequence of byte codes.  The model keeps to 7-bit *)
(* bytes without NUL: SQL text handed to the function is read as a C       *)
(* string, and the character arithmetic of the comparator is the same for  *)
(* every byte below 128.  C++ indexes from 0, TLA+ sequences from 1: At    *)
(* does the shift, and positions (i, pos, find) keep the C++ numbering.    *)
(***************************************************************************)
EXTENDS Integers, Sequences, FiniteSets, TLC

VARIABLES pc, l_ver, r_ver, options, i, first_diff, rc, line,
          argv, result, caller

vars == <<pc, l_ver, r_ver, options, i, first_diff, rc, line,
          argv, result, caller>>

(***************************************************************************)
(* Bounds of the model.                                                    *)
(***************************************************************************)
MaxLen == 2

MaxArgc == 7

(***************************************************************************)
(* Byte codes of the characters the code names.                            *)
(***************************************************************************)
Tilde == 126

Hyphen == 45

Caret == 94

Dot == 46

Colon == 58

Digit0 == 48

Digit9 == 57

\* The bytes version strings are enumerated over: the five delimiters, one
\* decimal digit ('1') and one letter ('a').
Alphabet == {Tilde, Hyphen, Caret, Dot, Colon, 49, 97}

Strings == UNION {[1..k -> Alphabet] : k \in 0..MaxLen}

\* The version strings of the documented examples.
V10 == <<49, 46, 48>>                        \* "1.0"

V101 == <<49, 46, 48, 46, 49>>               \* "1.0.1"

V10t == <<49, 46, 48, 126>>                  \* "1.0~"

V10h == <<49, 46, 48, 45>>                   \* "1.0-"

V20 == <<50, 46, 48>>                        \* "2.0"

V2e10 == <<50, 58, 49, 46, 48>>              \* "2:1.0"

V99 == <<57, 46, 57>>                        \* "9.9"

V10trc1 == <<49, 46, 48, 126, 114, 99, 49>>  \* "1.0~rc1"

V10hrc1 == <<49, 46, 48, 45, 114, 99, 49>>   \* "1.0-rc1"

V2 == <<50>>                                 \* "2"

V1x == <<49, 120>>                           \* "1x"

ExamplePairs ==
    {<<V10, V101>>, <<V101, V10>>, <<V10, V10t>>, <<V10t, V10>>,
     <<V2e10, V99>>, <<V99, V2e10>>, <<V10trc1, V10hrc1>>,
     <<V10hrc1, V10trc1>>, <<V10, V20>>, <<V20, V10>>, <<V10, V10>>,
     <<V2, V1x>>, <<V1x, V2>>}

(***************************************************************************)
(* Values that mark "not set".                                             *)
(***************************************************************************)
None == "none"

NoResult == [kind |-> "none", value |-> 0]

(***************************************************************************)
(* Helpers of the C++ library the code uses.                               *)
(***************************************************************************)
At(s, k) == s[k + 1]

\* std::string_view::npos
npos == -1

\* std::string_view::find of a single character: the first index or npos.
find(s, c) ==
    IF \E k \in 1..Len(s) : s[k] = c
    THEN (CHOOSE k \in 1..Len(s) :
              s[k] = c /\ \A j \in 1..(k - 1) : s[j] # c) - 1
    ELSE npos

isdigit(c) == c \in Digit0..Digit9

Min(a, b) == IF a < b THEN a ELSE b

Sign(x) == IF x < 0 THEN -1 ELSE IF x > 0 THEN 1 ELSE 0

(***************************************************************************)
(* The comparator.  An operator that models a function with several return *)
(* statements yields [rc |-> value, at |-> source line of the return].     *)
(***************************************************************************)
\* compareEpoch with the answer for an epoch on the left only negated.
compareEpoch_LeftOnlyLess(l, r) ==
    LET l_epoch == find(l, Colon)
        r_epoch == find(r, Colon)
    IN  IF l_epoch # npos /\ r_epoch # npos THEN l_epoch - r_epoch
        ELSE IF l_epoch # npos THEN -1
        ELSE IF r_epoch # npos THEN -1
        ELSE 0

compareEpoch(l, r) ==
    LET l_epoch == find(l, Colon)
        r_epoch == find(r, Colon)
    IN  IF l_epoch # npos /\ r_epoch # npos THEN l_epoch - r_epoch
        ELSE IF l_epoch # npos THEN 1
        ELSE IF r_epoch # npos THEN -1
        ELSE 0

delimiterPrecedence(c) ==
    CASE c = Tilde  -> 1
      [] c = Hyphen -> 2
      [] c = Caret  -> 3
      [] c = Dot    -> 4
      [] c = Colon  -> 5
      [] OTHER      -> 0

\* compareRemainder with the '~' of a longer left string answered as
\* the '~' of a longer right string is.
compareRemainder_TildeSameSign(l, r, pos, diff, comp_remaining, remainder_precedence) ==
    LET lenDiff == [rc |-> Len(l) - Len(r), at |-> 110]
    IN  IF ~comp_remaining THEN lenDiff
        ELSE IF Len(l) = pos THEN
            CASE At(r, pos) = Tilde  -> [rc |-> 1, at |-> 82]
              [] At(r, pos) = Hyphen -> [rc |-> 0, at |-> 84]
              [] At(r, pos) = Caret  -> [rc |-> -1, at |-> 86]
              [] OTHER ->
                   IF diff # 0 /\ (~remainder_precedence
                                     \/ ~isdigit(At(l, pos - 1)))
                   THEN [rc |-> diff, at |-> 89]
                   ELSE lenDiff
        ELSE IF Len(r) = pos THEN
            CASE At(l, pos) = Tilde  -> [rc |-> 1, at |-> 97]
              [] At(l, pos) = Hyphen -> [rc |-> 0, at |-> 99]
              [] At(l, pos) = Caret  -> [rc |-> 1, at |-> 101]
              [] OTHER ->
                   IF diff # 0 /\ (~remainder_precedence
                                     \/ ~isdigit(At(r, pos - 1)))
                   THEN [rc |-> diff, at |-> 104]
                   ELSE lenDiff
        ELSE lenDiff

\* compareRemainder with the pending difference looked at before the
\* marker bytes.
compareRemainder_DiffFirst(l, r, pos, diff, comp_remaining, remainder_precedence) ==
    LET lenDiff == [rc |-> Len(l) - Len(r), at |-> 110]
    IN  IF ~comp_remaining THEN lenDiff
        ELSE IF Len(l) = pos THEN
            IF diff # 0 /\ (~remainder_precedence
                                     \/ ~isdigit(At(l, pos - 1)))
            THEN [rc |-> diff, at |-> 89]
            ELSE CASE At(r, pos) = Tilde  -> [rc |-> 1, at |-> 82]
                   [] At(r, pos) = Hyphen -> [rc |-> 0, at |-> 84]
                   [] At(r, pos) = Caret  -> [rc |-> -1, at |-> 86]
                   [] OTHER -> lenDiff
        ELSE IF Len(r) = pos THEN
            IF diff # 0 /\ (~remainder_precedence
                                     \/ ~isdigit(At(r, pos - 1)))
            THEN [rc |-> diff, at |-> 104]
            ELSE CASE At(l, pos) = Tilde  -> [rc |-> -1, at |-> 97]
                   [] At(l, pos) = Hyphen -> [rc |-> 0, at |-> 99]
                   [] At(l, pos) = Caret  -> [rc |-> 1, at |-> 101]
                   [] OTHER -> lenDiff
        ELSE lenDiff

\* compareRemainder without the test that the pending difference is
\* not 0.
compareRemainder_AnyDiff(l, r, pos, diff, comp_remaining, remainder_precedence) ==
    LET lenDiff == [rc |-> Len(l) - Len(r), at |-> 110]
    IN  IF ~comp_remaining THEN lenDiff
        ELSE IF Len(l) = pos THEN
            CASE At(r, pos) = Tilde  -> [rc |-> 1, at |-> 82]
              [] At(r, pos) = Hyphen -> [rc |-> 0, at |-> 84]
              [] At(r, pos) = Caret  -> [rc |-> -1, at |-> 86]
              [] OTHER ->
                   IF ~remainder_precedence \/ ~isdigit(At(l, pos - 1))
                   THEN [rc |-> diff, at |-> 89]
                   ELSE lenDiff
        ELSE IF Len(r) = pos THEN
            CASE At(l, pos) = Tilde  -> [rc |-> -1, at |-> 97]
              [] At(l, pos) = Hyphen -> [rc |-> 0, at |-> 99]
              [] At(l, pos) = Caret  -> [rc |-> 1, at |-> 101]
              [] OTHER ->
                   IF ~remainder_precedence \/ ~isdigit(At(r, pos - 1))
                   THEN [rc |-> diff, at |-> 104]
                   ELSE lenDiff
        ELSE lenDiff

\* compareRemainder without the digit test of remainder_precedence.
compareRemainder_NoDigitTest(l, r, pos, diff, comp_remaining, remainder_precedence) ==
    LET lenDiff == [rc |-> Len(l) - Len(r), at |-> 110]
    IN  IF ~comp_remaining THEN lenDiff
        ELSE IF Len(l) = pos THEN
            CASE At(r, pos) = Tilde  -> [rc |-> 1, at |-> 82]
              [] At(r, pos) = Hyphen -> [rc |-> 0, at |-> 84]
              [] At(r, pos) = Caret  -> [rc |-> -1, at |-> 86]
              [] OTHER ->
                   IF diff # 0 /\ ~remainder_precedence
                   THEN [rc |-> diff, at |-> 89]
                   ELSE lenDiff
        ELSE IF Len(r) = pos THEN
            CASE At(l, pos) = Tilde  -> [rc |-> -1, at |-> 97]
              [] At(l, pos) = Hyphen -> [rc |-> 0, at |-> 99]
              [] At(l, pos) = Caret  -> [rc |-> 1, at |-> 101]
              [] OTHER ->
                   IF diff # 0 /\ ~remainder_precedence
                   THEN [rc |-> diff, at |-> 104]
                   ELSE lenDiff
        ELSE lenDiff

compareRemainder(l, r, pos, diff, comp_remaining, remainder_precedence) ==
    LET lenDiff == [rc |-> Len(l) - Len(r), at |-> 110]
    IN  IF ~comp_remaining THEN lenDiff
        ELSE IF Len(l) = pos THEN
            CASE At(r, pos) = Tilde  -> [rc |-> 1, at |-> 82]
              [] At(r, pos) = Hyphen -> [rc |-> 0, at |-> 84]
              [] At(r, pos) = Caret  -> [rc |-> -1, at |-> 86]
              [] OTHER ->
                   IF diff # 0 /\ (~remainder_precedence
                                     \/ ~isdigit(At(l, pos - 1)))
                   THEN [rc |-> diff, at |-> 89]
                   ELSE lenDiff
        ELSE IF Len(r) = pos THEN
            CASE At(l, pos) = Tilde  -> [rc |-> -1, at |-> 97]
              [] At(l, pos) = Hyphen -> [rc |-> 0, at |-> 99]
              [] At(l, pos) = Caret  -> [rc |-> 1, at |-> 101]
              [] OTHER ->
                   IF diff # 0 /\ (~remainder_precedence
                                     \/ ~isdigit(At(r, pos - 1)))
                   THEN [rc |-> diff, at |-> 104]
                   ELSE lenDiff
        ELSE lenDiff

\* LoopBody with the delimiter ranks compared before the pending difference
\* is returned.
LoopBody_RankFirst(l, r, k, fd, delim_precedence) ==
    LET l_delim == delimiterPrecedence(At(l, k))
        r_delim == delimiterPrecedence(At(r, k))
    IN  IF l_delim = 0 /\ r_delim = 0 THEN
            [returns |-> FALSE, rc |-> 0, at |-> 179,
             first_diff |-> IF fd = 0 THEN At(l, k) - At(r, k) ELSE fd]
        ELSE IF l_delim = 0 THEN
            [returns |-> TRUE, rc |-> 1, at |-> 181, first_diff |-> fd]
        ELSE IF r_delim = 0 THEN
            [returns |-> TRUE, rc |-> -1, at |-> 183, first_diff |-> fd]
        ELSE IF delim_precedence /\ l_delim - r_delim # 0 THEN
            [returns |-> TRUE, rc |-> l_delim - r_delim, at |-> 196,
             first_diff |-> fd]
        ELSE IF fd # 0 THEN
            [returns |-> TRUE, rc |-> fd, at |-> 189, first_diff |-> fd]
        ELSE
            [returns |-> FALSE, rc |-> 0, at |-> 199, first_diff |-> fd]

\* One iteration of the loop of versionCompare at index k with the pending
\* difference fd: either a return, or the pending difference to go on with.
LoopBody(l, r, k, fd, delim_precedence) ==
    LET l_delim == delimiterPrecedence(At(l, k))
        r_delim == delimiterPrecedence(At(r, k))
    IN  IF l_delim = 0 /\ r_delim = 0 THEN
            [returns |-> FALSE, rc |-> 0, at |-> 179,
             first_diff |-> IF fd = 0 THEN At(l, k) - At(r, k) ELSE fd]
        ELSE IF l_delim = 0 THEN
            [returns |-> TRUE, rc |-> 1, at |-> 181, first_diff |-> fd]
        ELSE IF r_delim = 0 THEN
            [returns |-> TRUE, rc |-> -1, at |-> 183, first_diff |-> fd]
        ELSE IF fd # 0 THEN
            [returns |-> TRUE, rc |-> fd, at |-> 189, first_diff |-> fd]
        ELSE IF delim_precedence /\ l_delim - r_delim # 0 THEN
            [returns |-> TRUE, rc |-> l_delim - r_delim, at |-> 196,
             first_diff |-> fd]
        ELSE
            [returns |-> FALSE, rc |-> 0, at |-> 199, first_diff |-> fd]

\* What versionCompare does once the loop is over.
AfterLoop(l, r, fd, comp_remaining, remainder_precedence) ==
    IF Len(l) = Len(r)
    THEN [rc |-> fd, at |-> 204]
    ELSE compareRemainder(l, r, Min(Len(l), Len(r)), fd,
                          comp_remaining, remainder_precedence)

RECURSIVE LoopFrom(_, _, _, _, _, _, _)
LoopFrom(l, r, k, fd, delim_precedence, comp_remaining, remainder_precedence) ==
    IF k < Min(Len(l), Len(r))
    THEN LET b == LoopBody(l, r, k, fd, delim_precedence)
         IN  IF b.returns
             THEN [rc |-> b.rc, at |-> b.at]
             ELSE LoopFrom(l, r, k + 1, b.first_diff, delim_precedence,
                           comp_remaining, remainder_precedence)
    ELSE AfterLoop(l, r, fd, comp_remaining, remainder_precedence)

\* The part of versionCompare before the loop: a return, or at = 0 to say
\* that the loop is entered.
BeforeLoop(l, r, epoch) ==
    IF Len(l) = 0 /\ Len(r) = 0 THEN [rc |-> 0, at |-> 146]
    ELSE IF Len(l) = 0 THEN [rc |-> -1, at |-> 148]
    ELSE IF Len(r) = 0 THEN [rc |-> 1, at |-> 150]
    ELSE IF l = r THEN [rc |-> 0, at |-> 158]
    ELSE IF epoch /\ compareEpoch(l, r) # 0
         THEN [rc |-> compareEpoch(l, r), at |-> 165]
    ELSE [rc |-> 0, at |-> 0]

versionCompare(l, r, epoch, delim_precedence, comp_remaining, remainder_precedence) ==
    LET b == BeforeLoop(l, r, epoch)
    IN  IF b.at # 0 THEN b
        ELSE LoopFrom(l, r, 0, 0, delim_precedence, comp_remaining,
                      remainder_precedence)

(***************************************************************************)
(* A call of versionCompare, one step per loop iteration.                  *)
(*   pc = "compare"  called, nothing done yet                              *)
(*   pc = "loop"     in the loop, about to look at index i                 *)
(*   pc = "returned" returned rc from the return statement at line         *)
(***************************************************************************)
epoch == options[1]

delim_precedence == options[2]

comp_remaining == options[3]

remainder_precedence == options[4]

min == Min(Len(l_ver), Len(r_ver))

Return(b) ==
    /\ pc' = "returned"
    /\ rc' = b.rc
    /\ line' = b.at

Enter ==
    /\ pc = "compare"
    /\ LET b == BeforeLoop(l_ver, r_ver, epoch)
       IN  IF b.at # 0
           THEN Return(b) /\ UNCHANGED <<i, first_diff>>
           ELSE /\ pc' = "loop"
                /\ i' = 0
                /\ first_diff' = 0
                /\ UNCHANGED <<rc, line>>
    /\ UNCHANGED <<l_ver, r_ver, options, argv, result, caller>>

LoopIter ==
    /\ pc = "loop"
    /\ i < min
    /\ LET b == LoopBody(l_ver, r_ver, i, first_diff, delim_precedence)
       IN  IF b.returns
           THEN Return(b) /\ UNCHANGED <<i, first_diff>>
           ELSE /\ i' = i + 1
                /\ first_diff' = b.first_diff
                /\ UNCHANGED <<pc, rc, line>>
    /\ UNCHANGED <<l_ver, r_ver, options, argv, result, caller>>

LoopExit ==
    /\ pc = "loop"
    /\ i = min
    /\ Return(AfterLoop(l_ver, r_ver, first_diff, comp_remaining,
                        remainder_precedence))
    /\ UNCHANGED <<i, first_diff>>
    /\ UNCHANGED <<l_ver, r_ver, options, argv, result, caller>>

(***************************************************************************)
(* Spec: versionCompare called on any two strings under any policy.        *)
(***************************************************************************)
Init ==
    /\ pc = "compare"
    /\ \E p \in (Strings \X Strings) \cup ExamplePairs :
           l_ver = p[1] /\ r_ver = p[2]
    /\ options \in [1..4 -> BOOLEAN]
    /\ i = 0
    /\ first_diff = 0
    /\ rc = 0
    /\ line = 0
    /\ argv = <<>>
    /\ result = NoResult
    /\ caller = None

Next == Enter \/ LoopIter \/ LoopExit

Spec == Init /\ [][Next]_vars

\* The stepwise call and the operator agree.
ReturnsVersionCompare ==
    pc = "returned" =>
        [rc |-> rc, at |-> line] =
            versionCompare(l_ver, r_ver, epoch, delim_precedence,
                           comp_remaining, remainder_precedence)
(***************************************************************************)
(* The scalar SQL function version_compare(left, op, right, options...).   *)
(* An SQL value has a type and, by type, a text or an integer.             *)
(***************************************************************************)
Text(s) == [type |-> "TEXT", text |-> s, int |-> 0]

Integer(n) == [type |-> "INTEGER", text |-> <<>>, int |-> n]

Null == [type |-> "NULL", text |-> <<>>, int |-> 0]

sqlite3_value_type(v) == v.type

sqlite3_value_text(v) == v.text

\* sqlite3_value_int: the integer of an INTEGER value, 0 for NULL.  The
\* integers of the model fit a C int, so the cut from 64 to 32 bits that
\* the call makes leaves them as they are.
sqlite3_value_int(v) == IF v.type = "INTEGER" THEN v.int ELSE 0

\* "<", "<=", "=", ">=", ">"
ops == {<<60>>, <<60, 61>>, <<61>>, <<62, 61>>, <<62>>}

\* ValidateArgs with the operator checked by its first character only.
ValidateArgs_FirstChar(args) ==
    LET argc == Len(args)
        last == Min(argc, 7)
    IN  IF argc < 3 THEN "arguments:221"
        ELSE IF \/ sqlite3_value_type(args[1]) # "TEXT"
                \/ sqlite3_value_type(args[2]) # "TEXT"
                \/ sqlite3_value_type(args[3]) # "TEXT"
             THEN "arguments:231"
        ELSE IF sqlite3_value_text(args[2])[1] \notin {60, 61, 62}
             THEN "operator:242"
        ELSE IF \E k \in 4..last :
                    /\ sqlite3_value_type(args[k]) # "INTEGER"
                    /\ sqlite3_value_type(args[k]) # "NULL"
             THEN "options:255"
        ELSE "ok"

\* The checks of versionCompareFunc in their order: the error raised, or
\* "ok".
ValidateArgs(args) ==
    LET argc == Len(args)
        last == Min(argc, 7)
    IN  IF argc < 3 THEN "arguments:221"
        ELSE IF \/ sqlite3_value_type(args[1]) # "TEXT"
                \/ sqlite3_value_type(args[2]) # "TEXT"
                \/ sqlite3_value_type(args[3]) # "TEXT"
             THEN "arguments:231"
        ELSE IF sqlite3_value_text(args[2]) \notin ops THEN "operator:242"
        ELSE IF \E k \in 4..last :
                    /\ sqlite3_value_type(args[k]) # "INTEGER"
                    /\ sqlite3_value_type(args[k]) # "NULL"
             THEN "options:255"
        ELSE "ok"

\* The vector options(4) after the loop over the option arguments.
ReadOptions(args) ==
    [k \in 1..4 |->
        IF k + 3 <= Len(args) /\ k + 3 <= 7
        THEN sqlite3_value_int(args[k + 3]) # 0
        ELSE FALSE]

\* MapResult without the two-character operators in the case rc = 0.
MapResult_EqualOnly(op, r) ==
    IF r < 0 THEN op[1] = 60
    ELSE IF r > 0 THEN op[1] = 62
    ELSE op[1] = 61

\* The boolean versionCompareFunc makes of rc and the operator.
MapResult(op, r) ==
    IF r < 0 THEN op[1] = 60
    ELSE IF r > 0 THEN op[1] = 62
    ELSE (op[1] = 61 \/ Len(op) = 2)

\* versionCompareFunc up to its call of versionCompare.
VersionCompareFunc ==
    /\ pc = "func"
    /\ LET v == ValidateArgs(argv)
       IN  IF v # "ok"
           THEN /\ pc' = "error"
                /\ result' = [kind |-> v, value |-> 0]
                /\ UNCHANGED <<l_ver, r_ver, options, caller>>
           ELSE /\ pc' = "compare"
                /\ caller' = "version_compare"
                /\ options' = ReadOptions(argv)
                /\ l_ver' = sqlite3_value_text(argv[1])
                /\ r_ver' = sqlite3_value_text(argv[3])
                /\ UNCHANGED result
    /\ UNCHANGED <<i, first_diff, rc, line, argv>>

\* versionCompareFunc after versionCompare has returned.
FuncResult ==
    /\ pc = "returned"
    /\ caller = "version_compare"
    /\ pc' = "done"
    /\ result' = [kind |-> "int",
                  value |-> IF MapResult(sqlite3_value_text(argv[2]), rc)
                            THEN 1 ELSE 0]
    /\ UNCHANGED <<l_ver, r_ver, options, i, first_diff, rc, line, argv,
                   caller>>

(***************************************************************************)
(* SpecFunc: version_compare called with any argument list.                *)
(***************************************************************************)
LeftVals == {Text(V10), Text(V10t), Text(V2), Text(V2e10), Integer(1)}

RightVals == {Text(V10), Text(V10h), Text(V1x), Text(V99), Text(V20), Null}

\* the five operators, "??", "==", "<>" and a value that is no text
OpVals == {Text(o) : o \in ops}
              \cup {Text(<<63, 63>>), Text(<<61, 61>>), Text(<<60, 62>>),
                    Integer(0)}

OptVals == {Null, Integer(0), Integer(1), Integer(2), Text(<<49>>)}

InitFunc ==
    /\ pc = "func"
    /\ \E n \in 0..MaxArgc :
         \E a1 \in LeftVals, a2 \in OpVals, a3 \in RightVals :
           \E o \in [1..(IF n > 3 THEN n - 3 ELSE 0) -> OptVals] :
              argv = SubSeq(<<a1, a2, a3>> \o o, 1, n)
    /\ l_ver = <<>>
    /\ r_ver = <<>>
    /\ options = [k \in 1..4 |-> FALSE]
    /\ i = 0
    /\ first_diff = 0
    /\ rc = 0
    /\ line = 0
    /\ result = NoResult
    /\ caller = None

NextFunc == VersionCompareFunc \/ Enter \/ LoopIter \/ LoopExit \/ FuncResult

SpecFunc == InitFunc /\ [][NextFunc]_vars

(***************************************************************************)
(* The four collations.                                                    *)
(***************************************************************************)
PresetGeneric == <<FALSE, FALSE, FALSE, FALSE>>

PresetARCH == <<TRUE, FALSE, TRUE, TRUE>>

PresetDPKG == <<TRUE, TRUE, FALSE, FALSE>>

PresetRHEL == <<TRUE, TRUE, TRUE, FALSE>>

WithPreset(pKey1, pKey2, p) ==
    versionCompare(pKey1, pKey2, p[1], p[2], p[3], p[4]).rc

versionCollate(pKey1, pKey2) == WithPreset(pKey1, pKey2, PresetGeneric)

versionCollateARCH(pKey1, pKey2) == WithPreset(pKey1, pKey2, PresetARCH)

versionCollateDPKG(pKey1, pKey2) == WithPreset(pKey1, pKey2, PresetDPKG)

versionCollateRHEL(pKey1, pKey2) == WithPreset(pKey1, pKey2, PresetRHEL)

\* registerVersionExtensions: the callback behind each collation name.
Collation(name, pKey1, pKey2) ==
    CASE name = "version"      -> versionCollate(pKey1, pKey2)
      [] name = "version_arch" -> versionCollateARCH(pKey1, pKey2)
      [] name = "version_dpkg" -> versionCollateDPKG(pKey1, pKey2)
      [] name = "version_rhel" -> versionCollateRHEL(pKey1, pKey2)

CollationNames == {"version", "version_arch", "version_dpkg", "version_rhel"}

\* Each collation callback calls versionCompare on its two keys with its
\* preset.
VersionCollate ==
    /\ pc = "collate"
    /\ pc' = "compare"
    /\ caller' = "version"
    /\ options' = PresetGeneric
    /\ UNCHANGED <<l_ver, r_ver, i, first_diff, rc, line, argv, result>>

VersionCollateARCH ==
    /\ pc = "collate"
    /\ pc' = "compare"
    /\ caller' = "version_arch"
    /\ options' = PresetARCH
    /\ UNCHANGED <<l_ver, r_ver, i, first_diff, rc, line, argv, result>>

VersionCollateDPKG ==
    /\ pc = "collate"
    /\ pc' = "compare"
    /\ caller' = "version_dpkg"
    /\ options' = PresetDPKG
    /\ UNCHANGED <<l_ver, r_ver, i, first_diff, rc, line, argv, result>>

VersionCollateRHEL ==
    /\ pc = "collate"
    /\ pc' = "compare"
    /\ caller' = "version_rhel"
    /\ options' = PresetRHEL
    /\ UNCHANGED <<l_ver, r_ver, i, first_diff, rc, line, argv, result>>

\* The callback returns what versionCompare returned.
CollateReturn ==
    /\ pc = "returned"
    /\ caller \in CollationNames
    /\ pc' = "done"
    /\ result' = [kind |-> "int", value |-> rc]
    /\ UNCHANGED <<l_ver, r_ver, options, i, first_diff, rc, line, argv,
                   caller>>

(***************************************************************************)
(* SpecCollate: the engine compares two keys under one of the collations.  *)
(***************************************************************************)
InitCollate ==
    /\ pc = "collate"
    /\ l_ver \in Strings
    /\ r_ver \in Strings
    /\ options = [k \in 1..4 |-> FALSE]
    /\ i = 0
    /\ first_diff = 0
    /\ rc = 0
    /\ line = 0
    /\ argv = <<>>
    /\ result = NoResult
    /\ caller = None

NextCollate ==
    \/ VersionCollate
    \/ VersionCollateARCH
    \/ VersionCollateDPKG
    \/ VersionCollateRHEL
    \/ Enter
    \/ LoopIter
    \/ LoopExit
    \/ CollateReturn

SpecCollate == InitCollate /\ [][NextCollate]_vars
(***************************************************************************)
(* Vocabulary of the properties, stated apart from the code's operators.   *)
(***************************************************************************)
HasColon(s) == \E k \in 1..Len(s) : s[k] = Colon

\* 0-based index of the first ':' of a string that has one
FirstColon(s) ==
    CHOOSE n \in 0..(Len(s) - 1) :
        s[n + 1] = Colon /\ \A m \in 0..(n - 1) : s[m + 1] # Colon

Rank == [c \in {Tilde, Hyphen, Caret, Dot, Colon} |->
            IF c = Tilde THEN 1
            ELSE IF c = Hyphen THEN 2
            ELSE IF c = Caret THEN 3
            ELSE IF c = Dot THEN 4
            ELSE 5]

IsDelimiter(c) == c \in DOMAIN Rank

IsDecimalDigit(c) == c \in {48, 49, 50, 51, 52, 53, 54, 55, 56, 57}

Longer == IF Len(l_ver) > Len(r_ver) THEN l_ver ELSE r_ver

Shorter == IF Len(l_ver) > Len(r_ver) THEN r_ver ELSE l_ver

\* the first byte of the longer string past the common prefix
PastPrefix == Longer[Len(Shorter) + 1]

\* the scan of the common prefix is over without a return, lengths differ
AtRemainder ==
    /\ pc = "loop"
    /\ i = Len(Shorter)
    /\ Len(l_ver) # Len(r_ver)

\* the result says that the shorter string is the greater one
ShorterGreater(x) == IF Len(l_ver) < Len(r_ver) THEN x > 0 ELSE x < 0

LongerGreater(x) == IF Len(l_ver) > Len(r_ver) THEN x > 0 ELSE x < 0

(***************************************************************************)
(* Properties of versionCompare (Spec).                                    *)
(***************************************************************************)

\* C1: antisymmetry.  Whatever the two strings and the four policy bits,
\* the sign of versionCompare(a, b) is the opposite of the sign of
\* versionCompare(b, a).
C1_Antisymmetry ==
    pc = "returned" =>
        Sign(rc) = -Sign(versionCompare(r_ver, l_ver, epoch,
                                        delim_precedence, comp_remaining,
                                        remainder_precedence).rc)

\* a comparison decided by the pending difference in compareRemainder
C1_Witness == pc = "returned" /\ line = 104 /\ rc > 0

\* C6: epoch rule.  With the epoch bit set, a string with a ':' is greater
\* than a string without one, two strings with their first ':' at different
\* indices compare as the difference of the indices, and the scan runs only
\* when neither is the case.
C6_EpochRule ==
    epoch =>
        /\ (pc = "returned" /\ HasColon(l_ver) /\ ~HasColon(r_ver)) => rc > 0
        /\ (pc = "returned" /\ ~HasColon(l_ver) /\ HasColon(r_ver)) => rc < 0
        /\ (pc = "returned" /\ HasColon(l_ver) /\ HasColon(r_ver)
                /\ FirstColon(l_ver) # FirstColon(r_ver))
              => rc = FirstColon(l_ver) - FirstColon(r_ver)
        /\ pc = "loop" =>
              /\ HasColon(l_ver) = HasColon(r_ver)
              /\ HasColon(l_ver) => FirstColon(l_ver) = FirstColon(r_ver)

\* "2:1.0" against "9.9" with the epoch bit
C6_Witness ==
    /\ pc = "returned"
    /\ epoch
    /\ l_ver = V2e10
    /\ r_ver = V99
    /\ rc > 0

\* C7: remainder markers.  Once the common prefix is scanned and the lengths
\* differ, with comp_remaining the byte of the longer string past the prefix
\* decides, whatever the pending difference: '~' makes the shorter string
\* greater, '-' gives 0, '^' makes the longer string greater; without
\* comp_remaining the result is the difference of the lengths.
C7_RemainderMarker ==
    [][AtRemainder =>
          /\ pc' = "returned"
          /\ (comp_remaining /\ PastPrefix = Tilde) => ShorterGreater(rc')
          /\ (comp_remaining /\ PastPrefix = Hyphen) => rc' = 0
          /\ (comp_remaining /\ PastPrefix = Caret) => LongerGreater(rc')
          /\ ~comp_remaining => rc' = Len(l_ver) - Len(r_ver)]_vars

\* a '~' has decided against a pending difference that says the opposite
C7_Witness ==
    /\ pc = "returned"
    /\ line = 82
    /\ first_diff < 0
    /\ rc > 0

\* C8 as stated: with comp_remaining, versionCompare("1.0", "1.0.1") returns
\* from the pending-difference rule of compareRemainder, not from the
\* length difference at its end.
C8_Original ==
    (pc = "returned" /\ comp_remaining /\ l_ver = V10 /\ r_ver = V101)
        => line = 89

\* C8 amended: with comp_remaining, versionCompare("1.0", "1.0.1") reaches
\* compareRemainder with a pending difference of 0, so that the
\* pending-difference rule does not apply and the result is the length
\* difference, -2.
C8_LengthDifference ==
    (pc = "returned" /\ comp_remaining /\ l_ver = V10 /\ r_ver = V101)
        => (line = 110 /\ first_diff = 0 /\ rc = -2)

\* "1.0" against "1.0.1" under the rhel preset
C8_Witness ==
    /\ pc = "returned"
    /\ options = PresetRHEL
    /\ l_ver = V10
    /\ r_ver = V101
    /\ rc < 0

\* C9: remainder digit rule.  With comp_remaining, lengths that differ and a
\* byte past the prefix that is none of '~', '-', '^', the result is the
\* pending difference when it is not 0, except when remainder_precedence is
\* set and the last byte of the shorter string is a decimal digit; then, and
\* when the pending difference is 0, it is the difference of the lengths.
C9_RemainderDigit ==
    [][(AtRemainder /\ comp_remaining
            /\ PastPrefix \notin {Tilde, Hyphen, Caret})
          => rc' = IF /\ first_diff # 0
                      /\ ~(/\ remainder_precedence
                           /\ IsDecimalDigit(Shorter[Len(Shorter)]))
                   THEN first_diff
                   ELSE Len(l_ver) - Len(r_ver)]_vars

\* the exception has applied: a pending difference gave way to the lengths
C9_Witness ==
    /\ pc = "returned"
    /\ line = 110
    /\ comp_remaining
    /\ remainder_precedence
    /\ first_diff > 0
    /\ rc < 0
    /\ PastPrefix \notin {Tilde, Hyphen, Caret}

\* C10: delimiter against delimiter.  Where both bytes are delimiters, a
\* pending difference that is not 0 is returned; if it is 0, delim_precedence
\* is set and the ranks differ, the difference of the ranks is returned;
\* otherwise the scan goes on, and it goes on with a pending difference of 0.
\* So "1.0~rc1" is less than "1.0-rc1" under delim_precedence.
C10_DelimiterStep ==
    /\ [][(/\ pc = "loop"
           /\ i < Len(Shorter)
           /\ IsDelimiter(l_ver[i + 1])
           /\ IsDelimiter(r_ver[i + 1]))
          => IF first_diff # 0
             THEN pc' = "returned" /\ rc' = first_diff
             ELSE IF /\ delim_precedence
                     /\ Rank[l_ver[i + 1]] # Rank[r_ver[i + 1]]
             THEN /\ pc' = "returned"
                  /\ rc' = Rank[l_ver[i + 1]] - Rank[r_ver[i + 1]]
             ELSE pc' = "loop" /\ i' = i + 1 /\ first_diff' = 0]_vars
    /\ [](/\ pc = "returned"
          /\ delim_precedence
          /\ l_ver = V10trc1
          /\ r_ver = V10hrc1
          => rc < 0)

\* "1.0~rc1" against "1.0-rc1", decided by the ranks of '~' and '-'
C10_Witness ==
    /\ pc = "returned"
    /\ delim_precedence
    /\ l_ver = V10trc1
    /\ r_ver = V10hrc1
    /\ line = 196
    /\ rc = -1

(***************************************************************************)
(* Properties of version_compare (SpecFunc).                               *)
(***************************************************************************)
\* the call has three texts and one of the five operators
GoodShape ==
    /\ Len(argv) >= 3
    /\ \A k \in 1..3 : argv[k].type = "TEXT"
    /\ argv[2].text \in {<<60>>, <<60, 61>>, <<61>>, <<62, 61>>, <<62>>}

\* the option arguments of the call
OptionArgs == {k \in 4..Len(argv) : TRUE}

\* the policy bit that the k-th option argument gives
OptionBit(k) ==
    /\ k + 3 <= Len(argv)
    /\ argv[k + 3].type = "INTEGER"
    /\ argv[k + 3].int # 0

\* rc op 0
OpHolds(op, x) ==
    CASE op = <<60>>     -> x < 0
      [] op = <<60, 61>> -> x <= 0
      [] op = <<61>>     -> x = 0
      [] op = <<62, 61>> -> x >= 0
      [] op = <<62>>     -> x > 0

\* C3: operator mapping.  A call that ends with a boolean ends with the truth
\* of (rc op 0), rc being versionCompare(left, right) under the policy bits
\* that the options give.
C3_OperatorMapping ==
    (pc = "done" /\ caller = "version_compare") =>
        /\ result.kind = "int"
        /\ result.value =
             IF OpHolds(argv[2].text,
                        versionCompare(argv[1].text, argv[3].text,
                                       OptionBit(1), OptionBit(2),
                                       OptionBit(3), OptionBit(4)).rc)
             THEN 1 ELSE 0

\* '>=' answered with true for two strings that compare equal
C3_Witness ==
    /\ pc = "done"
    /\ caller = "version_compare"
    /\ argv[2].text = <<62, 61>>
    /\ rc = 0
    /\ argv[1] # argv[3]
    /\ result.value = 1

\* C4: option validation.  An option argument that is not 0, 1 or null makes
\* the call end in an error, and an option that is absent or null leaves its
\* policy bit unset.
C4_OptionValidation ==
    (/\ pc \in {"compare", "loop", "returned", "done"}
     /\ caller = "version_compare")
        => /\ \A k \in OptionArgs :
                  argv[k] \in {Null, Integer(0), Integer(1)}
           /\ \A k \in 1..4 :
                  (k + 3 > Len(argv) \/ argv[k + 3] = Null)
                      => options[k] = FALSE

\* C5: argument shape and operator.  A call with fewer than 3 arguments, with
\* a left, operator or right argument that is no text, or with an operator
\* outside the five, ends in an error, without a boolean and without a call
\* of versionCompare.
C5_ShapeValidation ==
    /\ [](~GoodShape =>
            /\ pc \in {"func", "error"}
            /\ caller = None
            /\ (pc = "func" => result = NoResult)
            /\ (pc = "error" => result.kind \notin {"none", "int"}))
    /\ [][(~GoodShape /\ pc = "func") => pc' = "error"]_vars

\* the operator "??" refused
C5_Witness ==
    /\ pc = "error"
    /\ Len(argv) >= 3
    /\ argv[2] = Text(<<63, 63>>)
    /\ result.kind = "operator:242"

(***************************************************************************)
(* Properties of the collations (SpecCollate).                             *)
(***************************************************************************)

\* C2: total ordering.  Under each collation, a <= b and b <= c give a <= c,
\* and a = b and b = c give a = c.  Here a and b are the two keys of the
\* call and c is any key.
C2_TotalOrder ==
    (pc = "done" /\ caller \in CollationNames) =>
        \A c \in Strings :
            /\ (result.value <= 0 /\ Collation(caller, r_ver, c) <= 0)
                  => Collation(caller, l_ver, c) <= 0
            /\ (result.value = 0 /\ Collation(caller, r_ver, c) = 0)
                  => Collation(caller, l_ver, c) = 0
====
